---- MODULE Spec2Model ----
(***************************************************************************)
(* The facet separation oracle of MAXE (src/src/glp_oracle.c): load_vlp,   *)
(* initialize_oracle, ask_oracle, call_glp and get_oracle_stat, with the   *)
(* glpk LP object P, the request/response buffers of OracleData and the    *)
(* call statistics as the state.                                           *)
(*                                                                         *)
(* A C double is a fixed-point number: the integer v stands for v/Scale.   *)
(* One C expression is evaluated exactly (in units of Scale^2 or Scale^3)  *)
(* and rounded to the nearest representable value when it is stored.       *)
(***************************************************************************)
EXTENDS Integers, Sequences, FiniteSets, TLC

(* ------------------------------------------------------------------ *)
(* Bounds of the model                                                  *)
(* ------------------------------------------------------------------ *)
\* initialize_oracle and ask_oracle are entered only while oracle_calls is below
\* the bound of the run: MaxCalls in the runs with the exact solver, MaxCallsAny
\* in the runs where glpk is a black box or glp_simplex may fail
MaxCalls == 4
MaxCallsAny == 3
\* gettimeofday() readings (milliseconds) range over 0..MaxClock
MaxClock == 1

(* ------------------------------------------------------------------ *)
(* Numbers                                                              *)
(* ------------------------------------------------------------------ *)
\* units per 1.0 of a double
Scale == 100
\* PARAMS(PolytopeEps), 0.01 in units of 1/Scale
PolytopeEps == 1
\* unsigned long arithmetic is modulo ULongMod (the width is narrowed to 16 bits)
ULongMod == 65536

Abs(x) == IF x < 0 THEN -x ELSE x
\* n/d rounded to the nearest integer, d > 0
RoundDiv(n, d) == (2 * n + d) \div (2 * d)
\* n/d for a divisor of either sign
Quot(n, d) == IF d > 0 THEN RoundDiv(n, d) ELSE RoundDiv(-n, -d)
Min2(a, b) == IF a <= b THEN a ELSE b

RECURSIVE SumTo(_, _)
\* f[1] + ... + f[n]
SumTo(f, n) == IF n = 0 THEN 0 ELSE f[n] + SumTo(f, n - 1)

\* the largest and the smallest element of a non-empty set of integers
SetMax(S) == CHOOSE x \in S : \A y \in S : y <= x
SetMin(S) == CHOOSE x \in S : \A y \in S : x <= y

(* ------------------------------------------------------------------ *)
(* Codes                                                                *)
(* ------------------------------------------------------------------ *)
ORACLE_OK == 0
ORACLE_UNBND == 1
ORACLE_EMPTY == 2
ORACLE_LIMIT == 3
ORACLE_FAIL == 4

\* return codes of glp_simplex (0 is success)
GLP_EBADB == 1
GLP_ESING == 2
GLP_ECOND == 3
GLP_EFAIL == 5
GLP_EITLIM == 8
GLP_ETMLIM == 9

\* solution status of glp_get_status
GLP_UNDEF == 1
GLP_FEAS == 2
GLP_INFEAS == 3
GLP_NOFEAS == 4
GLP_OPT == 5
GLP_UNBND == 6

(* ------------------------------------------------------------------ *)
(* The glpk problem object                                              *)
(* ------------------------------------------------------------------ *)
\* static glp_prob *P=NULL
NullProb ==
    [created |-> FALSE, m |-> 0, n |-> 0, row_bnds |-> << >>, col_bnds |-> << >>,
     mat |-> << >>, obj_coef |-> << >>, obj_dir |-> "GLP_MIN"]

\* an empty problem: no rows, no columns, minimization
glp_create_prob ==
    [created |-> TRUE, m |-> 0, n |-> 0, row_bnds |-> << >>, col_bnds |-> << >>,
     mat |-> << >>, obj_coef |-> << >>, obj_dir |-> "GLP_MIN"]

Bnd(type, lb, ub) == [type |-> type, lb |-> lb, ub |-> ub]

\* new columns are fixed at zero, with an empty list of coefficients;
\* mat[j][i] is the coefficient of column j in row i
glp_add_cols(lp, ncs) ==
    [lp EXCEPT !.n = lp.n + ncs,
               !.col_bnds = [j \in 1..(lp.n + ncs) |->
                   IF j <= lp.n THEN lp.col_bnds[j] ELSE Bnd("GLP_FX", 0, 0)],
               !.obj_coef = [j \in 1..(lp.n + ncs) |->
                   IF j <= lp.n THEN lp.obj_coef[j] ELSE 0],
               !.mat = [j \in 1..(lp.n + ncs) |->
                   IF j <= lp.n THEN lp.mat[j] ELSE [i \in 1..lp.m |-> 0]]]

\* new rows are free, with an empty list of coefficients
glp_add_rows(lp, nrs) ==
    [lp EXCEPT !.m = lp.m + nrs,
               !.row_bnds = [i \in 1..(lp.m + nrs) |->
                   IF i <= lp.m THEN lp.row_bnds[i] ELSE Bnd("GLP_FR", 0, 0)],
               !.mat = [j \in 1..lp.n |-> [i \in 1..(lp.m + nrs) |->
                   IF i <= lp.m THEN lp.mat[j][i] ELSE 0]]]

glp_set_col_bnds(lp, j, type, lb, ub) ==
    [lp EXCEPT !.col_bnds[j] = Bnd(type, lb, ub)]

glp_set_row_bnds(lp, i, type, lb, ub) ==
    [lp EXCEPT !.row_bnds[i] = Bnd(type, lb, ub)]

\* replace column j by the len entries val[1..len] at the rows ind[1..len]
glp_set_mat_col(lp, j, len, ind, val) ==
    [lp EXCEPT !.mat[j] = [i \in 1..lp.m |->
        IF \E k \in 1..len : ind[k] = i
        THEN val[CHOOSE k \in 1..len : ind[k] = i]
        ELSE 0]]

glp_set_obj_coef(lp, j, v) == [lp EXCEPT !.obj_coef[j] = v]

glp_set_obj_dir(lp, d) == [lp EXCEPT !.obj_dir = d]

(* ------------------------------------------------------------------ *)
(* The vlp file: the lines nextline() delivers, already split in fields *)
(* ------------------------------------------------------------------ *)
\* k: the first character; dir: the word after "p vlp"; nums: the leading
\* integer fields; ctrl: the bound kind character ("" when missing);
\* vals: the real fields that follow
Line(k, dir, nums, ctrl, vals) ==
    [k |-> k, dir |-> dir, nums |-> nums, ctrl |-> ctrl, vals |-> vals]
LnP(dir, nums) == Line("p", dir, nums, "", << >>)
LnJ(j, ctrl, vals) == Line("j", "", <<j>>, ctrl, vals)
LnI(i, ctrl, vals) == Line("i", "", <<i>>, ctrl, vals)
LnA(i, j, v) == Line("a", "", <<i, j>>, "", <<v>>)
LnO(i, j, v) == Line("o", "", <<i, j>>, "", <<v>>)
LnX(i, v) == Line("x", "", <<i>>, "", <<v>>)
LnE == Line("e", "", << >>, "", << >>)
LnC == Line("c", "", << >>, "", << >>)

\* sscanf(inpline,"p vlp <word> %d %d %*d %d %*d",&rows,&cols,&objs)
ScanP(line, word) ==
    IF line.dir # word THEN 0
    ELSE IF Len(line.nums) = 0 THEN -1
    ELSE IF Len(line.nums) <= 2 THEN Len(line.nums)
    ELSE IF Len(line.nums) = 3 THEN 2
    ELSE 3

\* sscanf(inpline,"j %d %c %lg %lg",&j,&ctrl,&b1,&b2), and the same for i
ScanBound(line) ==
    IF Len(line.nums) = 0 THEN -1
    ELSE IF line.ctrl = "" THEN 1
    ELSE 2 + Min2(Len(line.vals), 2)

\* sscanf(inpline,"a %d %d %lg",&i,&j,&p), and the same for o
ScanCoef(line) ==
    IF Len(line.nums) = 0 THEN -1
    ELSE IF Len(line.nums) = 1 THEN 1
    ELSE 2 + Min2(Len(line.vals), 1)

\* sscanf(inpline,"x %d %lg",&i,&p)
ScanX(line) ==
    IF Len(line.nums) = 0 THEN -1
    ELSE 1 + Min2(Len(line.vals), 1)

vlp_type_ok(ctrl, parno) ==
    CASE ctrl = "f" -> parno = 2
      [] ctrl \in {"u", "l", "s"} -> parno = 3
      [] ctrl = "d" -> parno = 4
      [] OTHER -> FALSE

glp_type(ctrl) ==
    CASE ctrl = "f" -> "GLP_FR"
      [] ctrl = "u" -> "GLP_UP"
      [] ctrl = "l" -> "GLP_LO"
      [] ctrl = "s" -> "GLP_FX"
      [] ctrl = "d" -> "GLP_DB"
      [] OTHER -> "-1"

(* ------------------------------------------------------------------ *)
(* Shuffling and allocation                                             *)
(* ------------------------------------------------------------------ *)
\* (random()&0x3fffffff)%v for the raw random number r
mrandom(v, r) == IF v <= 1 THEN 0 ELSE r % v

RECURSIVE perm_from_NoSwap(_, _, _, _)
\* a perm_from that copies arr[j] to arr[i] and leaves arr[j] as it is
perm_from_NoSwap(i, len, arr, rnd) ==
    IF i >= len THEN arr
    ELSE LET j == i + mrandom(len + 1 - i, rnd[i])
         IN  perm_from_NoSwap(i + 1, len, [arr EXCEPT ![i] = arr[j]], rnd)

RECURSIVE perm_from(_, _, _, _)
\* the loop of perm_array from index i on; rnd[i] is the i-th random number
perm_from(i, len, arr, rnd) ==
    IF i >= len THEN arr
    ELSE LET j == i + mrandom(len + 1 - i, rnd[i])
         IN  perm_from(i + 1, len, [arr EXCEPT ![i] = arr[j], ![j] = arr[i]], rnd)

perm_array(len, arr, rnd) == perm_from(1, len, arr, rnd)

\* the globals allocate_vlp sets; rnd is the stream of random numbers,
\* the row permutation taking the first rows+objs-1 of them
allocate_vlp(rows, cols, objs, shuffle, rnd) ==
    LET rowidx0 == [i \in 0..(rows + objs) |-> i]
        colidx0 == [i \in 0..(cols + 1) |-> i]
        rowidx == IF shuffle THEN perm_array(rows + objs, rowidx0, rnd) ELSE rowidx0
        colidx == IF shuffle
                  THEN perm_array(cols + 1, colidx0,
                                  [i \in 1..cols |-> rnd[rows + objs - 1 + i]])
                  ELSE colidx0
    IN  [vfacet |-> [i \in 0..objs |-> 0],
         vvertex |-> [i \in 0..objs |-> 0],
         vlp_objidx |-> [i \in 1..objs |-> rowidx[i + rows]],
         vlp_lambda |-> [i \in 1..objs |-> 0],
         vlp_init |-> [i \in 1..objs |-> 0],
         vlp_M |-> [r \in 1..(rows + objs) |-> [c \in 1..(cols + 1) |-> 0]],
         vlp_rowidx |-> rowidx,
         vlp_colidx |-> colidx,
         lambda_idx |-> colidx[cols + 1]]

(* ------------------------------------------------------------------ *)
(* load_vlp                                                             *)
(* ------------------------------------------------------------------ *)
\* the globals before allocate_vlp: the pointers are NULL
NoAlloc ==
    [vfacet |-> << >>, vvertex |-> << >>, vlp_objidx |-> << >>, vlp_lambda |-> << >>,
     vlp_init |-> << >>, vlp_M |-> << >>, vlp_rowidx |-> << >>, vlp_colidx |-> << >>,
     lambda_idx |-> 0]

NoReport == [lvl |-> "none", msg |-> ""]
Fatal(msg) == [lvl |-> "R_fatal", msg |-> msg]

\* load_vlp's locals and the globals it writes, after fopen and glp_create_prob;
\* ret is -1 while the file is being read
LoadStart ==
    [P |-> glp_create_prob, rows |-> 0, cols |-> 0, objs |-> 0, dir |-> 1,
     Direction |-> 0, g |-> NoAlloc, ret |-> -1, rep |-> NoReport, nread |-> 0]

LoadFail(ld, msg) == [ld EXCEPT !.ret = 1, !.rep = Fatal(msg)]

\* case 'p'
LoadP(ld, line, shuffle, rnd) ==
    IF ld.rows > 0 THEN LoadFail(ld, "second p line")
    ELSE LET cmin == ScanP(line, "min")
             cnt == IF cmin = 0 THEN ScanP(line, "max") ELSE cmin
             dir == IF cmin = 0 THEN -1 ELSE 1
             rows == IF cnt >= 1 THEN line.nums[1] ELSE 0
             cols == IF cnt >= 2 THEN line.nums[2] ELSE 0
             objs == IF cnt >= 3 THEN line.nums[4] ELSE 0
             ld1 == [ld EXCEPT !.dir = dir, !.Direction = IF cmin = 0 THEN 1 ELSE 0,
                               !.rows = rows, !.cols = cols, !.objs = objs]
         IN  IF cnt # 3 \/ rows <= 1 \/ cols <= 1 \/ objs < 1
             THEN LoadFail(ld1, "wrong p line")
             ELSE LET g == allocate_vlp(rows, cols, objs, shuffle, rnd)
                      lp == glp_add_rows(glp_add_cols(ld.P, cols + 1), rows + objs)
                  IN  [ld1 EXCEPT !.g = g,
                          !.P = glp_set_col_bnds(lp, g.lambda_idx, "GLP_LO", 0, 0)]

\* b1 and b2 of a j or i line: b1=b2=0.0 before sscanf, b2=b1 when cnt<4
BoundB1(line) == IF Len(line.vals) >= 1 THEN line.vals[1] ELSE 0
BoundB2(line) == IF Len(line.vals) >= 2 THEN line.vals[2] ELSE BoundB1(line)

\* a LoadJ that puts the bound on the column the file names, not on the
\* column vlp_colidx sends it to
LoadJDirect(ld, line) ==
    IF ld.rows = 0 THEN LoadFail(ld, "j line before p")
    ELSE LET cnt == ScanBound(line)
         IN  IF cnt < 2 \/ ld.cols < line.nums[1] \/ line.nums[1] < 1
                \/ ~vlp_type_ok(line.ctrl, cnt)
             THEN LoadFail(ld, "wrong j line")
             ELSE [ld EXCEPT !.P = glp_set_col_bnds(ld.P, line.nums[1],
                                  glp_type(line.ctrl), BoundB1(line), BoundB2(line))]

\* case 'j'
LoadJ(ld, line) ==
    IF ld.rows = 0 THEN LoadFail(ld, "j line before p")
    ELSE LET cnt == ScanBound(line)
         IN  IF cnt < 2 \/ ld.cols < line.nums[1] \/ line.nums[1] < 1
                \/ ~vlp_type_ok(line.ctrl, cnt)
             THEN LoadFail(ld, "wrong j line")
             ELSE [ld EXCEPT !.P = glp_set_col_bnds(ld.P, ld.g.vlp_colidx[line.nums[1]],
                                  glp_type(line.ctrl), BoundB1(line), BoundB2(line))]

\* case 'i'
LoadI(ld, line) ==
    IF ld.rows = 0 THEN LoadFail(ld, "i line before p")
    ELSE LET cnt == ScanBound(line)
         IN  IF cnt < 2 \/ ld.rows < line.nums[1] \/ line.nums[1] < 1
                \/ ~vlp_type_ok(line.ctrl, cnt)
             THEN LoadFail(ld, "wrong i line")
             ELSE [ld EXCEPT !.P = glp_set_row_bnds(ld.P, ld.g.vlp_rowidx[line.nums[1]],
                                  glp_type(line.ctrl), BoundB1(line), BoundB2(line))]

\* case 'a'
LoadA(ld, line) ==
    IF ld.rows = 0 THEN LoadFail(ld, "a line before p")
    ELSE LET cnt == ScanCoef(line)
         IN  IF cnt # 3 \/ ld.rows < line.nums[1] \/ line.nums[1] < 1
                \/ ld.cols < line.nums[2] \/ line.nums[2] < 1
             THEN LoadFail(ld, "wrong a line")
             ELSE [ld EXCEPT !.g.vlp_M[ld.g.vlp_rowidx[line.nums[1]]]
                                      [ld.g.vlp_colidx[line.nums[2]]] = line.vals[1]]

\* a LoadO that stores the coefficient as written, whatever the direction
LoadOPlain(ld, line) ==
    IF ld.rows = 0 THEN LoadFail(ld, "o line before p")
    ELSE LET cnt == ScanCoef(line)
         IN  IF cnt # 3 \/ ld.objs < line.nums[1] \/ line.nums[1] < 1
                \/ ld.cols < line.nums[2] \/ line.nums[2] < 1
             THEN LoadFail(ld, "wrong o line")
             ELSE [ld EXCEPT !.g.vlp_M[ld.g.vlp_objidx[line.nums[1]]]
                                      [ld.g.vlp_colidx[line.nums[2]]] = line.vals[1]]

\* case 'o'
LoadO(ld, line) ==
    IF ld.rows = 0 THEN LoadFail(ld, "o line before p")
    ELSE LET cnt == ScanCoef(line)
         IN  IF cnt # 3 \/ ld.objs < line.nums[1] \/ line.nums[1] < 1
                \/ ld.cols < line.nums[2] \/ line.nums[2] < 1
             THEN LoadFail(ld, "wrong o line")
             ELSE [ld EXCEPT !.g.vlp_M[ld.g.vlp_objidx[line.nums[1]]]
                                      [ld.g.vlp_colidx[line.nums[2]]] = ld.dir * line.vals[1]]

\* case 'x'
LoadX(ld, line) ==
    IF ld.rows = 0 THEN LoadFail(ld, "x line before p")
    ELSE LET cnt == ScanX(line)
         IN  IF cnt # 2 \/ ld.objs < line.nums[1] \/ line.nums[1] < 1
             THEN LoadFail(ld, "wrong x line")
             ELSE [ld EXCEPT !.g.vlp_init[line.nums[1]] = line.vals[1]]

\* the switch on inpline[0]: 'c' and 'e' do nothing and the loop goes on
LoadLine(ld, line, shuffle, rnd) ==
    LET l1 == [ld EXCEPT !.nread = ld.nread + 1]
    IN  CASE line.k = "c" -> l1
          [] line.k = "e" -> l1
          [] line.k = "p" -> LoadP(l1, line, shuffle, rnd)
          [] line.k = "j" -> LoadJ(l1, line)
          [] line.k = "i" -> LoadI(l1, line)
          [] line.k = "a" -> LoadA(l1, line)
          [] line.k = "o" -> LoadO(l1, line)
          [] line.k = "x" -> LoadX(l1, line)
          [] OTHER -> LoadFail(l1, "unknown line")

RECURSIVE LoadLinesOn(_, _, _, _, _)
\* a loop that reads on after a line in error
LoadLinesOn(ld, file, k, shuffle, rnd) ==
    IF k > Len(file) THEN ld
    ELSE LoadLinesOn(LoadLine(ld, file[k], shuffle, rnd), file, k + 1, shuffle, rnd)

RECURSIVE LoadLines(_, _, _, _, _)
\* while(nextline(f)) switch ... from line number k on; a return 1 leaves the loop
LoadLines(ld, file, k, shuffle, rnd) ==
    IF k > Len(file) \/ ld.ret = 1 THEN ld
    ELSE LoadLines(LoadLine(ld, file[k], shuffle, rnd), file, k + 1, shuffle, rnd)

RECURSIVE UploadCols(_, _, _)
\* for(j=1;j<=cols+1;j++) if(j!=lambda_idx) glp_set_mat_col(P,j,rows+objs,vlp_rowidx,&M(1,j)-1)
\* with vlp_rowidx reset to the identity
UploadCols(ld, lp, j) ==
    IF j > ld.cols + 1 THEN lp
    ELSE UploadCols(ld,
             IF j # ld.g.lambda_idx
             THEN glp_set_mat_col(lp, j, ld.rows + ld.objs,
                      [i \in 1..(ld.rows + ld.objs) |-> i],
                      [i \in 1..(ld.rows + ld.objs) |-> ld.g.vlp_M[i][j]])
             ELSE lp,
             j + 1)

RECURSIVE FixObjRowsAtZero(_, _, _)
\* a FixObjRows that fixes every objective row at 0
FixObjRowsAtZero(ld, lp, i) ==
    IF i > ld.objs THEN lp
    ELSE FixObjRowsAtZero(ld, glp_set_row_bnds(lp, ld.g.vlp_objidx[i], "GLP_FX", 0, 0),
                          i + 1)

RECURSIVE FixObjRows(_, _, _)
\* for(i=1;i<=objs;i++) glp_set_row_bnds(P,vlp_objidx[i],GLP_FX,vlp_init[i],vlp_init[i])
FixObjRows(ld, lp, i) ==
    IF i > ld.objs THEN lp
    ELSE FixObjRows(ld,
             glp_set_row_bnds(lp, ld.g.vlp_objidx[i], "GLP_FX",
                              ld.g.vlp_init[i], ld.g.vlp_init[i]),
             i + 1)

\* a LoadFinish that wants every coordinate of the internal point above
\* PolytopeEps
LoadFinishStrict(ld) ==
    IF ld.ret = 1 THEN ld
    ELSE IF ld.rows = 0 THEN LoadFail(ld, "no p line")
    ELSE IF \E i \in 1..ld.objs : ld.g.vlp_init[i] <= PolytopeEps
    THEN LoadFail(ld, "initial value not positive")
    ELSE LET lp1 == UploadCols(ld, ld.P, 1)
             lp2 == FixObjRows(ld, lp1, 1)
             lp3 == glp_set_obj_dir(glp_set_obj_coef(lp2, ld.g.lambda_idx, Scale), "GLP_MAX")
         IN  [ld EXCEPT !.P = lp3, !.ret = 0,
                        !.g.vlp_M = << >>, !.g.vlp_rowidx = << >>, !.g.vlp_colidx = << >>]

\* the part of load_vlp after the file is read
LoadFinish(ld) ==
    IF ld.ret = 1 THEN ld
    ELSE IF ld.rows = 0 THEN LoadFail(ld, "no p line")
    ELSE IF \E i \in 1..ld.objs : ld.g.vlp_init[i] < PolytopeEps
    THEN LoadFail(ld, "initial value not positive")
    ELSE LET lp1 == UploadCols(ld, ld.P, 1)
             lp2 == FixObjRows(ld, lp1, 1)
             lp3 == glp_set_obj_dir(glp_set_obj_coef(lp2, ld.g.lambda_idx, Scale), "GLP_MAX")
         IN  [ld EXCEPT !.P = lp3, !.ret = 0,
                        !.g.vlp_M = << >>, !.g.vlp_rowidx = << >>, !.g.vlp_colidx = << >>]

\* load_vlp on an opened file
load_vlp(file, shuffle, rnd) ==
    LoadFinish(LoadLines(LoadStart, file, 1, shuffle, rnd))

(* ------------------------------------------------------------------ *)
(* glp_simplex                                                          *)
(* ------------------------------------------------------------------ *)
\* the return codes glp_simplex is taken to give
GlpReturns == {0, GLP_EBADB, GLP_ESING, GLP_ECOND, GLP_EFAIL, GLP_EITLIM, GLP_ETMLIM}
GlpStatuses == {GLP_UNDEF, GLP_FEAS, GLP_INFEAS, GLP_NOFEAS, GLP_OPT, GLP_UNBND}
\* objective values and row duals an unconstrained solver is taken to report
GlpObjVals == {1, 10, 99, 100, 101}
GlpDuals == {-Scale, 0}

\* what glp_get_status, glp_get_obj_val and glp_get_row_dual give after a solve
Solution(stat, obj_val, row_dual) ==
    [stat |-> stat, obj_val |-> obj_val, row_dual |-> row_dual]

\* the solver as a black box: after a return of 0 any status; with status
\* optimal any objective value and any duals on the rows in objrows
AnySolutions(lp, ret, objrows) ==
    IF ret # 0 THEN {Solution(GLP_UNDEF, 0, [i \in 1..lp.m |-> 0])}
    ELSE {Solution(s, 0, [i \in 1..lp.m |-> 0]) : s \in GlpStatuses \ {GLP_OPT}}
         \cup
         {Solution(GLP_OPT, l, [i \in 1..lp.m |-> IF i \in DOMAIN d THEN d[i] ELSE 0]) :
              l \in GlpObjVals, d \in [objrows -> GlpDuals]}

\* The exact optimum, for the problems in which every column but the objective
\* column lam is fixed by a row of its own: x[j] + a[j]*lambda = alpha[j].  A
\* constraint is  sum c[j]*x[j] <= U  over all columns; along the line it reads
\* B*L <= R for L = lambda in units of 1/Scale.
LamCol(lp) == CHOOSE j \in 1..lp.n : lp.obj_coef[j] # 0
IsDefRow(lp, i, j) ==
    /\ lp.row_bnds[i].type = "GLP_FX"
    /\ lp.mat[j][i] = Scale
    /\ \A j2 \in 1..lp.n : (j2 # j /\ j2 # LamCol(lp)) => lp.mat[j2][i] = 0
DefRow(lp, j) == CHOOSE i \in 1..lp.m : IsDefRow(lp, i, j)
InFamily(lp) ==
    /\ lp.created
    /\ \E j \in 1..lp.n : lp.obj_coef[j] # 0
    /\ \A j \in (1..lp.n) \ {LamCol(lp)} : \E i \in 1..lp.m : IsDefRow(lp, i, j)

\* the constraints c.x <= U a bound of kind b.type puts on the linear form c
BoundCons(c, b) ==
    LET neg == [j \in DOMAIN c |-> -c[j]]
        up(v) == {[c |-> c, U |-> v]}
        lo(v) == {[c |-> neg, U |-> -v]}
    IN  CASE b.type = "GLP_FR" -> {}
          [] b.type = "GLP_LO" -> lo(b.lb)
          [] b.type = "GLP_UP" -> up(b.ub)
          [] b.type = "GLP_DB" -> lo(b.lb) \cup up(b.ub)
          [] OTHER -> lo(b.lb) \cup up(b.lb)

GlpConstraints(lp) ==
    LET lam == LamCol(lp)
        defrows == {DefRow(lp, j) : j \in (1..lp.n) \ {lam}}
    IN  UNION {BoundCons([j2 \in 1..lp.n |-> IF j2 = j THEN Scale ELSE 0], lp.col_bnds[j]) :
                   j \in 1..lp.n}
        \cup
        UNION {BoundCons([j \in 1..lp.n |-> lp.mat[j][i]], lp.row_bnds[i]) :
                   i \in (1..lp.m) \ defrows}

\* B and R of a constraint
ConsB(lp, k) ==
    LET lam == LamCol(lp)
    IN  Scale * k.c[lam]
        - SumTo([j \in 1..lp.n |->
                    IF j = lam THEN 0 ELSE k.c[j] * lp.mat[lam][DefRow(lp, j)]], lp.n)
ConsR(lp, k) ==
    LET lam == LamCol(lp)
    IN  k.U * Scale * Scale
        - Scale * SumTo([j \in 1..lp.n |->
                    IF j = lam THEN 0 ELSE k.c[j] * lp.row_bnds[DefRow(lp, j)].lb], lp.n)

GlpExact(lp) ==
    LET lam == LamCol(lp)
        cons == GlpConstraints(lp)
        ups == {k \in cons : ConsB(lp, k) > 0}
        lows == {k \in cons : ConsB(lp, k) < 0}
        val(k) == Quot(ConsR(lp, k), ConsB(lp, k))
        nofeas == \/ \E k \in cons : ConsB(lp, k) = 0 /\ ConsR(lp, k) < 0
                  \/ \E k \in ups, k2 \in lows : val(k2) > val(k)
        zero == [i \in 1..lp.m |-> 0]
    IN  IF nofeas THEN Solution(GLP_NOFEAS, 0, zero)
        ELSE IF lp.obj_dir = "GLP_MIN"
        THEN IF lows = {} THEN Solution(GLP_UNBND, 0, zero)
             ELSE Solution(GLP_OPT, SetMax({val(k) : k \in lows}), zero)
        ELSE IF ups = {} THEN Solution(GLP_UNBND, 0, zero)
        ELSE LET best == SetMin({val(k) : k \in ups})
                 bind == CHOOSE k \in ups : val(k) = best
                 dual == [i \in 1..lp.m |->
                     IF \E j \in (1..lp.n) \ {lam} : DefRow(lp, j) = i
                     THEN LET j == CHOOSE j \in (1..lp.n) \ {lam} : DefRow(lp, j) = i
                          IN  Quot(-(Scale * Scale * bind.c[j]), ConsB(lp, bind))
                     ELSE 0]
             IN  Solution(GLP_OPT, best, dual)

\* what glpk may answer to the last glp_simplex of a call_glp that returned ret
GlpSolutions(mode, lp, ret, objrows) ==
    IF mode = "exact" /\ ret = 0 /\ InFamily(lp) THEN {GlpExact(lp)}
    ELSE AnySolutions(lp, ret, objrows)

(* ------------------------------------------------------------------ *)
(* State                                                                *)
(* ------------------------------------------------------------------ *)
VARIABLES
    PARAMS,        \* VlpFile, ShuffleMatrix, RoundFacets, ProblemRows, ProblemColumns,
                   \* ProblemObjects, Direction
    P,             \* the glpk problem object
    vvertex,       \* OracleData.overtex[0..objs], the request
    vfacet,        \* OracleData.ofacet[0..objs], the response
    vlp_objidx,    \* the rows of the objectives
    vlp_lambda,    \* the lambda column in the objective rows
    vlp_init,      \* the internal point
    lambda_idx,    \* the lambda column index
    oracle_calls,  \* number of LP calls
    oracle_time,   \* milliseconds spent in LP calls
    simplex,       \* what glpk answered in the last call_glp: rets, stat, obj_val
    last,          \* what the calling program did last: op, ret, out
    rep,           \* the last report
    pc,            \* where the calling program is: start, loadfail, loaded, inited
    failed,        \* initialize_oracle or ask_oracle has returned ORACLE_FAIL
    env            \* how glpk, the clock and random() behave in this run

vars == <<PARAMS, P, vvertex, vfacet, vlp_objidx, vlp_lambda, vlp_init, lambda_idx,
          oracle_calls, oracle_time, simplex, last, rep, pc, failed, env>>

vobjs == PARAMS.ProblemObjects

(* ------------------------------------------------------------------ *)
(* call_glp                                                             *)
(* ------------------------------------------------------------------ *)
\* the returns of glp_simplex in a run: all of GlpReturns, or success only
SimplexReturns(e) == IF e.rets = "any" THEN GlpReturns ELSE {0}

LastOf(seq) == seq[Len(seq)]

\* A run of call_glp: oracle_calls, the returns of the glp_simplex calls made so
\* far, and the local variable ret.
\* oracle_calls++; ...; ret=glp_simplex(P,&parm)
CallFirst(calls, rs) == {[calls |-> calls + 1, rets |-> <<r>>, ret |-> r] : r \in rs}

\* a call_glp that takes the first retry for GLP_EBADB only
CallBadBasisOnlyBadb(run, rs) ==
    IF run.ret = GLP_EBADB
    THEN {[calls |-> run.calls + 1, rets |-> Append(run.rets, r), ret |-> r] : r \in rs}
    ELSE {run}

\* if(ret==GLP_EBADB || ret==GLP_ESING){ ...; oracle_calls++; ret=glp_simplex(P,&parm); }
CallBadBasis(run, rs) ==
    IF run.ret = GLP_EBADB \/ run.ret = GLP_ESING
    THEN {[calls |-> run.calls + 1, rets |-> Append(run.rets, r), ret |-> r] : r \in rs}
    ELSE {run}

\* if(ret==GLP_EFAIL){ ...; oracle_calls++; ret=glp_simplex(P,&parm); }
CallSecondChance(run, rs) ==
    IF run.ret = GLP_EFAIL
    THEN {[calls |-> run.calls + 1, rets |-> Append(run.rets, r), ret |-> r] : r \in rs}
    ELSE {run}

\* the runs of call_glp from oracle_calls = calls; call_glp returns ret
call_glp(calls, rs) ==
    UNION {CallSecondChance(r2, rs) :
               r2 \in UNION {CallBadBasis(r1, rs) : r1 \in CallFirst(calls, rs)}}

\* the readings of gettimeofday in milliseconds; a negative one: the call failed.
\* The wall clock may be set back between two readings.
TimeReadings(e) == IF e.clock = "any" THEN (-1)..MaxClock ELSE {0}

\* oracle_time after call_glp read t0 at its start and t1 at its end
call_glp_time(time, t0, t1) ==
    LET starttime == IF t0 >= 0 THEN t0 ELSE 0
    IN  IF t1 >= 0 THEN (time + (t1 - starttime)) % ULongMod ELSE time

(* ------------------------------------------------------------------ *)
(* initialize_oracle                                                    *)
(* ------------------------------------------------------------------ *)
\* the problem call_glp solves in initialize_oracle
InitProblem(lp) == glp_set_obj_dir(lp, "GLP_MIN")

\* an initialize_oracle that leaves the direction at GLP_MIN and takes every
\* status without a feasible point for an empty polytope
initialize_oracle_KeepMin(lp, ret, sv) ==
    IF ret # 0
    THEN [ret |-> ORACLE_FAIL, P |-> lp, rep |-> Fatal("Internal point: the oracle says")]
    ELSE IF sv.stat # GLP_OPT
    THEN [ret |-> IF sv.stat \in {GLP_NOFEAS, GLP_INFEAS} THEN ORACLE_EMPTY ELSE ORACLE_FAIL,
          P |-> lp, rep |-> Fatal("Internal point, the oracle says")]
    ELSE [ret |-> ORACLE_OK, P |-> lp, rep |-> NoReport]

\* initialize_oracle after call_glp returned ret with solution sv on lp
initialize_oracle(lp, ret, sv) ==
    IF ret # 0
    THEN [ret |-> ORACLE_FAIL, P |-> lp, rep |-> Fatal("Internal point: the oracle says")]
    ELSE IF sv.stat # GLP_OPT
    THEN [ret |-> IF sv.stat = GLP_NOFEAS THEN ORACLE_EMPTY ELSE ORACLE_FAIL,
          P |-> lp, rep |-> Fatal("Internal point, the oracle says")]
    ELSE [ret |-> ORACLE_OK, P |-> glp_set_obj_dir(lp, "GLP_MAX"), rep |-> NoReport]

(* ------------------------------------------------------------------ *)
(* ask_oracle                                                           *)
(* ------------------------------------------------------------------ *)
\* round_to of round.h: snap to the nearest multiple of RoundGrid/Scale
RoundGrid == 5
round_to(d) == RoundGrid * RoundDiv(d, RoundGrid)

\* an AskLambda that treats every request as a finite point
AskLambdaFinite(vx, init, objs) ==
    [i \in 1..objs |-> init[i] - vx[i - 1]]

\* vlp_lambda for the request vx
AskLambda(vx, init, objs) ==
    [i \in 1..objs |-> IF vx[objs] = 0 THEN 0 - vx[i - 1] ELSE init[i] - vx[i - 1]]

\* the problem call_glp solves in ask_oracle
AskProblem(lp, lidx, objs, objidx, lam) == glp_set_mat_col(lp, lidx, objs, objidx, lam)

\* d=0.0; for(i=0;i<vobjs;i++) d += vfacet[i]<0 ? -vfacet[i]:vfacet[i];
FacetNorm(f, objs) == SumTo([i \in 1..objs |-> Abs(f[i - 1])], objs)

\* a FacetScaled that leaves out the division by the norm d
FacetNotScaled(f, objs, d, round) ==
    [i \in 0..objs |->
        IF i = objs THEN f[i]
        ELSE IF round THEN round_to(f[i]) ELSE f[i]]

\* for(i=0;i<vobjs;i++) vfacet[i] /= d; and round_to when RoundFacets is set
FacetScaled(f, objs, d, round) ==
    [i \in 0..objs |->
        IF i = objs THEN f[i]
        ELSE IF round THEN round_to(Quot(f[i] * Scale, d)) ELSE Quot(f[i] * Scale, d)]

\* a FacetOffset that puts the hyperplane through the internal point, not
\* through the boundary point
FacetOffsetAtInit(f, objs, init, lambda, lam, round) ==
    LET d3 == 0 - SumTo([i \in 1..objs |-> f[i - 1] * (init[i] * Scale)], objs)
        d == Quot(d3, Scale * Scale)
    IN  IF round THEN round_to(d) ELSE d

\* a FacetOffset that starts from the offset vfacet holds, not from 0.0
FacetOffsetNotReset(f, objs, init, lambda, lam, round) ==
    LET d3 == f[objs] * Scale * Scale
              - SumTo([i \in 1..objs |->
                      f[i - 1] * (init[i] * Scale - lambda * lam[i])], objs)
        d == Quot(d3, Scale * Scale)
    IN  IF round THEN round_to(d) ELSE d

\* d-=vfacet[i-1]*(vlp_init[i]-lambda*vlp_lambda[i]) for i=1..vobjs; round_to
FacetOffset(f, objs, init, lambda, lam, round) ==
    LET d3 == 0 - SumTo([i \in 1..objs |->
                      f[i - 1] * (init[i] * Scale - lambda * lam[i])], objs)
        d == Quot(d3, Scale * Scale)
    IN  IF round THEN round_to(d) ELSE d

\* d=0.0; for(i=0;i<=vobjs;i++) d+=vvertex[i]*vfacet[i];   in units of 1/Scale^2
VertexSide(vx, f, objs) == SumTo([i \in 1..(objs + 1) |-> vx[i - 1] * f[i - 1]], objs + 1)

\* d=vfacet[vobjs]; for(i=1;i<=vobjs;i++) d+=vlp_init[i]*vfacet[i-1];   in units of 1/Scale^2
InitSide(init, f, objs) ==
    f[objs] * Scale + SumTo([i \in 1..objs |-> init[i] * f[i - 1]], objs)

\* an AskCheck that accepts the facet when the internal point is on its
\* non-negative side, without the margin PolytopeEps
AskCheckNoMargin(vx, f, objs, init) ==
    IF VertexSide(vx, f, objs) > 0
    THEN [ret |-> ORACLE_FAIL, vfacet |-> f,
          rep |-> Fatal("Numerical error: vertex is on the negative side")]
    ELSE IF InitSide(init, f, objs) < 0
    THEN [ret |-> ORACLE_FAIL, vfacet |-> f,
          rep |-> Fatal("Initial point is on the negative side of the next facet")]
    ELSE [ret |-> ORACLE_OK, vfacet |-> f, rep |-> NoReport]

\* the checks of vvertex and vlp_init against the facet f
AskCheck(vx, f, objs, init) ==
    IF VertexSide(vx, f, objs) > 0
    THEN [ret |-> ORACLE_FAIL, vfacet |-> f,
          rep |-> Fatal("Numerical error: vertex is on the negative side")]
    ELSE IF InitSide(init, f, objs) < PolytopeEps * Scale
    THEN [ret |-> ORACLE_FAIL, vfacet |-> f,
          rep |-> Fatal("Initial point is on the negative side of the next facet")]
    ELSE [ret |-> ORACLE_OK, vfacet |-> f, rep |-> NoReport]

\* an AskFacet that reads the duals of the rows 1..objs, not of the
\* objective rows
AskFacetFirstRows(vx, f0, objs, objidx, init, lam, lambda, sv, round) ==
    LET raw == [i \in 0..objs |-> IF i = objs THEN f0[i] ELSE sv.row_dual[i + 1]]
        d == FacetNorm(raw, objs)
    IN  IF d < PolytopeEps
        THEN [ret |-> ORACLE_FAIL, vfacet |-> raw,
              rep |-> Fatal("Numerical problem, facet all zero")]
        ELSE LET g == FacetScaled(raw, objs, d, round)
                 f == [g EXCEPT ![objs] = FacetOffset(g, objs, init, lambda, lam, round)]
             IN  AskCheck(vx, f, objs, init)

\* from vfacet[i-1]=glp_get_row_dual(P,vlp_objidx[i]) on
AskFacet(vx, f0, objs, objidx, init, lam, lambda, sv, round) ==
    LET raw == [i \in 0..objs |-> IF i = objs THEN f0[i] ELSE sv.row_dual[objidx[i + 1]]]
        d == FacetNorm(raw, objs)
    IN  IF d < PolytopeEps
        THEN [ret |-> ORACLE_FAIL, vfacet |-> raw,
              rep |-> Fatal("Numerical problem, facet all zero")]
        ELSE LET g == FacetScaled(raw, objs, d, round)
                 f == [g EXCEPT ![objs] = FacetOffset(g, objs, init, lambda, lam, round)]
             IN  AskCheck(vx, f, objs, init)

\* an AskOptimal that checks lambda against 1 for ideal requests too
AskOptimalAnyRequest(vx, f0, objs, objidx, init, lam, sv, round) ==
    LET lambda == sv.obj_val
    IN  IF lambda < 10 * PolytopeEps
        THEN [ret |-> ORACLE_FAIL, vfacet |-> f0,
              rep |-> Fatal("Initial point is on the boundary")]
        ELSE IF lambda > Scale - PolytopeEps
        THEN IF lambda > Scale + PolytopeEps
             THEN [ret |-> ORACLE_FAIL, vfacet |-> f0,
                   rep |-> Fatal("Numerical problem, lambda > 1.0")]
             ELSE [ret |-> ORACLE_UNBND, vfacet |-> f0, rep |-> NoReport]
        ELSE AskFacet(vx, f0, objs, objidx, init, lam, lambda, sv, round)

\* the checks of lambda=glp_get_obj_val(P)
AskOptimal(vx, f0, objs, objidx, init, lam, sv, round) ==
    LET lambda == sv.obj_val
    IN  IF lambda < 10 * PolytopeEps
        THEN [ret |-> ORACLE_FAIL, vfacet |-> f0,
              rep |-> Fatal("Initial point is on the boundary")]
        ELSE IF vx[objs] # 0 /\ lambda > Scale - PolytopeEps
        THEN IF lambda > Scale + PolytopeEps
             THEN [ret |-> ORACLE_FAIL, vfacet |-> f0,
                   rep |-> Fatal("Numerical problem, lambda > 1.0")]
             ELSE [ret |-> ORACLE_UNBND, vfacet |-> f0, rep |-> NoReport]
        ELSE AskFacet(vx, f0, objs, objidx, init, lam, lambda, sv, round)

\* an ask_oracle that takes every unbounded problem for a request inside
ask_oracle_UnbndInside(vx, f0, objs, objidx, init, lam, ret, sv, round) ==
    IF ret # 0
    THEN [ret |-> ORACLE_FAIL, vfacet |-> f0, rep |-> Fatal("The oracle says (return)")]
    ELSE IF sv.stat = GLP_UNBND
    THEN [ret |-> ORACLE_UNBND, vfacet |-> f0, rep |-> NoReport]
    ELSE IF sv.stat # GLP_OPT
    THEN [ret |-> ORACLE_FAIL, vfacet |-> f0, rep |-> Fatal("The oracle says (status)")]
    ELSE AskOptimal(vx, f0, objs, objidx, init, lam, sv, round)

\* ask_oracle after call_glp returned ret with solution sv
ask_oracle(vx, f0, objs, objidx, init, lam, ret, sv, round) ==
    IF ret # 0
    THEN [ret |-> ORACLE_FAIL, vfacet |-> f0, rep |-> Fatal("The oracle says (return)")]
    ELSE IF sv.stat = GLP_UNBND
    THEN IF vx[objs] = 0
         THEN [ret |-> ORACLE_UNBND, vfacet |-> f0, rep |-> NoReport]
         ELSE [ret |-> ORACLE_FAIL, vfacet |-> f0,
               rep |-> Fatal("The oracle says: problem unbounded")]
    ELSE IF sv.stat # GLP_OPT
    THEN [ret |-> ORACLE_FAIL, vfacet |-> f0, rep |-> Fatal("The oracle says (status)")]
    ELSE AskOptimal(vx, f0, objs, objidx, init, lam, sv, round)

(* ------------------------------------------------------------------ *)
(* get_oracle_stat                                                      *)
(* ------------------------------------------------------------------ *)
\* *no=oracle_calls; *time=(oracle_time+5ul)/10ul;
get_oracle_stat(calls, time) == <<calls, ((time + 5) % ULongMod) \div 10>>

(* ------------------------------------------------------------------ *)
(* Inputs                                                               *)
(* ------------------------------------------------------------------ *)
\* x>=0, y>=0, x+(a12/Scale)*y<=1 (and the redundant x+y>=0), with header
\* direction dir, the objectives (oc/Scale)*x and (oc/Scale)*y, and the
\* internal point (e1,e2)
Problem(dir, a12, oc, e1, e2) ==
    << LnC,
       LnP(dir, <<2, 2, 0, 2, 0>>),
       LnJ(1, "l", <<0>>), LnJ(2, "l", <<0>>),
       LnA(1, 1, Scale), LnA(1, 2, a12), LnI(1, "u", <<Scale>>),
       LnA(2, 1, Scale), LnA(2, 2, Scale), LnI(2, "l", <<0>>),
       LnO(1, 1, oc), LnO(2, 2, oc),
       LnX(1, e1), LnX(2, e2),
       LnE >>

\* x>=0, y>=0, x+y<=1 in the objectives x and y, with the internal point (e1,e2)
Triangle(e1, e2) == Problem("min", Scale, Scale, e1, e2)

\* x>=0, y>=0, x+2y<=1 in the objectives x and y
Skew == Problem("min", 2 * Scale, Scale, 30, 30)

\* the triangle as a maximization problem in the objectives -x and -y
MaxTriangle == Problem("max", Scale, 0 - Scale, 30, 30)

\* an a line before the p line
BadOrder == << LnA(1, 1, Scale) >> \o Triangle(30, 30)

\* the vlp files: whether fopen succeeds, and the lines
VlpFile(open, lines) == [open |-> open, lines |-> lines]
VlpFiles ==
    {VlpFile(TRUE, Triangle(30, 30)),
     VlpFile(TRUE, Triangle(50, 50)),
     VlpFile(TRUE, Triangle(60, 60)),
     VlpFile(TRUE, Triangle(30, 0)),
     VlpFile(TRUE, Skew),
     VlpFile(TRUE, MaxTriangle),
     VlpFile(TRUE, BadOrder),
     VlpFile(FALSE, << >>)}

\* the raw random numbers random() gives to allocate_vlp
RandomStream == <<1, 2, 1, 2, 1>>

\* How the environment behaves in a run.  solver: glpk is a black box ("any")
\* or returns the exact optimum; rets: glp_simplex may return an error ("any")
\* or returns 0; clock: gettimeofday may fail and the clock may be set ("any")
\* or it reads the same time throughout.
Env(solver, rets, clock) ==
    [solver |-> solver, rets |-> rets, clock |-> clock, random |-> RandomStream,
     calls |-> IF solver = "exact" /\ rets = "ok" THEN MaxCalls ELSE MaxCallsAny]

Params(file, shuffle, round) ==
    [VlpFile |-> file, ShuffleMatrix |-> shuffle, RoundFacets |-> round,
     ProblemRows |-> 0, ProblemColumns |-> 0, ProblemObjects |-> 0, Direction |-> 0]

\* the configurations and environments the runs start from
Scenarios ==
    {<<Params(f, sh, rd), Env("exact", "ok", "steady")>> :
         f \in VlpFiles, sh \in BOOLEAN, rd \in BOOLEAN}
    \cup
    {<<Params(VlpFile(TRUE, Triangle(30, 30)), FALSE, FALSE), Env("any", "ok", "steady")>>,
     <<Params(VlpFile(TRUE, Triangle(30, 30)), FALSE, FALSE), Env("exact", "any", "steady")>>,
     <<Params(VlpFile(TRUE, Triangle(30, 30)), FALSE, FALSE), Env("exact", "ok", "any")>>}

\* the requests written to OracleData.overtex
Request3(a, b, c) == [i \in 0..2 |-> IF i = 0 THEN a ELSE IF i = 1 THEN b ELSE c]
Requests ==
    {Request3(40, 40, Scale), Request3(Scale, 0, 0),
     Request3(20, 30, Scale), Request3(Scale, Scale, Scale)}

(* ------------------------------------------------------------------ *)
(* The program                                                          *)
(* ------------------------------------------------------------------ *)
\* the returns of the glp_simplex calls of a call_glp, the value call_glp
\* returned, and the status and objective value glpk reports afterwards
NoSimplex == [rets |-> << >>, ret |-> 0, stat |-> GLP_UNDEF, obj_val |-> 0]
Simplex(run, sv) ==
    [rets |-> run.rets, ret |-> run.ret, stat |-> sv.stat, obj_val |-> sv.obj_val]
\* again: the call is an ask_oracle that directly follows an ask_oracle, with
\* the request untouched in between
Called(op, ret, out) == [op |-> op, ret |-> ret, out |-> out, again |-> FALSE]

\* the state before load_vlp, in one of the scenarios scs
InitWith(scs) ==
    /\ \E sc \in scs : PARAMS = sc[1] /\ env = sc[2]
    /\ P = NullProb
    /\ vvertex = << >>
    /\ vfacet = << >>
    /\ vlp_objidx = << >>
    /\ vlp_lambda = << >>
    /\ vlp_init = << >>
    /\ lambda_idx = 0
    /\ oracle_calls = 0
    /\ oracle_time = 0
    /\ simplex = NoSimplex
    /\ last = Called("none", 0, << >>)
    /\ rep = NoReport
    /\ pc = "start"
    /\ failed = FALSE

Init == InitWith(Scenarios)

\* load_vlp(), called once
Load ==
    /\ pc = "start"
    /\ IF ~PARAMS.VlpFile.open
       THEN /\ last' = Called("load_vlp", 1, << >>)
            /\ rep' = Fatal("Cannot open vlp file")
            /\ pc' = "loadfail"
            /\ UNCHANGED <<PARAMS, P, vvertex, vfacet, vlp_objidx, vlp_lambda,
                           vlp_init, lambda_idx>>
       ELSE LET ld == load_vlp(PARAMS.VlpFile.lines, PARAMS.ShuffleMatrix, env.random)
            IN  /\ P' = ld.P
                /\ PARAMS' = IF ld.g = NoAlloc
                             THEN [PARAMS EXCEPT !.Direction = ld.Direction]
                             ELSE [PARAMS EXCEPT !.Direction = ld.Direction,
                                                 !.ProblemRows = ld.rows,
                                                 !.ProblemColumns = ld.cols,
                                                 !.ProblemObjects = ld.objs]
                /\ vvertex' = ld.g.vvertex
                /\ vfacet' = ld.g.vfacet
                /\ vlp_objidx' = ld.g.vlp_objidx
                /\ vlp_lambda' = ld.g.vlp_lambda
                /\ vlp_init' = ld.g.vlp_init
                /\ lambda_idx' = ld.g.lambda_idx
                /\ last' = Called("load_vlp", ld.ret, << >>)
                /\ rep' = ld.rep
                /\ pc' = IF ld.ret = 0 THEN "loaded" ELSE "loadfail"
    /\ UNCHANGED <<oracle_calls, oracle_time, simplex, failed, env>>

\* initialize_oracle(), called once after load_vlp returned 0
Initialize ==
    /\ pc = "loaded"
    /\ oracle_calls < env.calls
    /\ \E run \in call_glp(oracle_calls, SimplexReturns(env)),
          t0 \in TimeReadings(env), t1 \in TimeReadings(env) :
         LET lp == InitProblem(P)
             ret == run.ret
         IN  \E sv \in GlpSolutions(env.solver, lp, ret, {}) :
               LET res == initialize_oracle(lp, ret, sv)
               IN  /\ P' = res.P
                   /\ oracle_calls' = run.calls
                   /\ oracle_time' = call_glp_time(oracle_time, t0, t1)
                   /\ simplex' = Simplex(run, sv)
                   /\ last' = Called("initialize_oracle", res.ret, << >>)
                   /\ rep' = res.rep
                   /\ failed' = (failed \/ res.ret = ORACLE_FAIL)
    /\ pc' = "inited"
    /\ UNCHANGED <<PARAMS, vvertex, vfacet, vlp_objidx, vlp_lambda, vlp_init,
                   lambda_idx, env>>

\* the calling program writes the next request
Request ==
    /\ pc = "inited"
    /\ \E q \in Requests : vvertex' = q
    /\ last' = Called("request", 0, << >>)
    /\ UNCHANGED <<PARAMS, P, vfacet, vlp_objidx, vlp_lambda, vlp_init, lambda_idx,
                   oracle_calls, oracle_time, simplex, rep, pc, failed, env>>

\* an ask_oracle that turns a finite request into its direction from the
\* internal point in the request buffer itself
AskInPlace ==
    /\ pc = "inited"
    /\ oracle_calls < env.calls
    /\ \E run \in call_glp(oracle_calls, SimplexReturns(env)),
          t0 \in TimeReadings(env), t1 \in TimeReadings(env) :
         LET lam == AskLambda(vvertex, vlp_init, vobjs)
             lp == AskProblem(P, lambda_idx, vobjs, vlp_objidx, lam)
             ret == run.ret
         IN  \E sv \in GlpSolutions(env.solver, lp, ret, {vlp_objidx[i] : i \in 1..vobjs}) :
               LET res == ask_oracle(vvertex, vfacet, vobjs, vlp_objidx, vlp_init, lam,
                                     ret, sv, PARAMS.RoundFacets)
               IN  /\ vlp_lambda' = lam
                   /\ vvertex' = [i \in 0..vobjs |->
                                     IF i < vobjs THEN 0 - lam[i + 1] ELSE vvertex[i]]
                   /\ P' = lp
                   /\ oracle_calls' = run.calls
                   /\ oracle_time' = call_glp_time(oracle_time, t0, t1)
                   /\ simplex' = Simplex(run, sv)
                   /\ vfacet' = res.vfacet
                   /\ last' = [Called("ask_oracle", res.ret, << >>)
                                   EXCEPT !.again = (last.op = "ask_oracle")]
                   /\ rep' = res.rep
                   /\ failed' = (failed \/ res.ret = ORACLE_FAIL)
    /\ UNCHANGED <<PARAMS, vlp_objidx, vlp_init, lambda_idx, pc, env>>

\* ask_oracle()
Ask ==
    /\ pc = "inited"
    /\ oracle_calls < env.calls
    /\ \E run \in call_glp(oracle_calls, SimplexReturns(env)),
          t0 \in TimeReadings(env), t1 \in TimeReadings(env) :
         LET lam == AskLambda(vvertex, vlp_init, vobjs)
             lp == AskProblem(P, lambda_idx, vobjs, vlp_objidx, lam)
             ret == run.ret
         IN  \E sv \in GlpSolutions(env.solver, lp, ret, {vlp_objidx[i] : i \in 1..vobjs}) :
               LET res == ask_oracle(vvertex, vfacet, vobjs, vlp_objidx, vlp_init, lam,
                                     ret, sv, PARAMS.RoundFacets)
               IN  /\ vlp_lambda' = lam
                   /\ P' = lp
                   /\ oracle_calls' = run.calls
                   /\ oracle_time' = call_glp_time(oracle_time, t0, t1)
                   /\ simplex' = Simplex(run, sv)
                   /\ vfacet' = res.vfacet
                   /\ last' = [Called("ask_oracle", res.ret, << >>)
                                   EXCEPT !.again = (last.op = "ask_oracle")]
                   /\ rep' = res.rep
                   /\ failed' = (failed \/ res.ret = ORACLE_FAIL)
    /\ UNCHANGED <<PARAMS, vvertex, vlp_objidx, vlp_init, lambda_idx, pc, env>>

\* a get_oracle_stat that counts itself as a call
GetStatCounting ==
    /\ P.created
    /\ last' = Called("get_oracle_stat", 0, get_oracle_stat(oracle_calls, oracle_time))
    /\ oracle_calls' = oracle_calls + 1
    /\ UNCHANGED <<PARAMS, P, vvertex, vfacet, vlp_objidx, vlp_lambda, vlp_init,
                   lambda_idx, oracle_time, simplex, rep, pc, failed, env>>

\* get_oracle_stat(&no,&it,&time)
GetStat ==
    /\ P.created
    /\ last' = Called("get_oracle_stat", 0, get_oracle_stat(oracle_calls, oracle_time))
    /\ UNCHANGED <<PARAMS, P, vvertex, vfacet, vlp_objidx, vlp_lambda, vlp_init,
                   lambda_idx, oracle_calls, oracle_time, simplex, rep, pc, failed, env>>

Next == Load \/ Initialize \/ Request \/ Ask \/ GetStat

Spec == Init /\ [][Next]_vars

(* ------------------------------------------------------------------ *)
(* load_vlp on its own, over a larger set of vlp files                  *)
(* ------------------------------------------------------------------ *)
\* the file with the line ln put before line k, in place of line k, and
\* without line k
InsertAt(file, k, ln) == SubSeq(file, 1, k - 1) \o <<ln>> \o SubSeq(file, k, Len(file))
ReplaceAt(file, k, ln) == [file EXCEPT ![k] = ln]
RemoveAt(file, k) == SubSeq(file, 1, k - 1) \o SubSeq(file, k + 1, Len(file))

\* lines that are in order after the p line, lines with an index out of
\* range, and lines with a first character load_vlp does not know
EarlyLines ==
    {LnJ(1, "l", <<0>>), LnI(1, "u", <<Scale>>), LnA(1, 1, Scale), LnO(1, 1, Scale),
     LnX(1, 30)}
RangeLines ==
    {LnJ(0, "l", <<0>>), LnJ(3, "l", <<0>>), LnI(0, "u", <<Scale>>), LnI(5, "u", <<Scale>>),
     LnA(0, 1, Scale), LnA(3, 1, Scale), LnA(1, 0, Scale), LnA(1, 3, Scale),
     LnO(0, 1, Scale), LnO(3, 1, Scale), LnO(1, 0, Scale), LnO(1, 3, Scale),
     LnX(0, 30), LnX(3, 30)}
UnknownLines == {Line("z", "", <<1>>, "", << >>), Line("q", "", << >>, "", << >>)}

\* the triangle with one line out of order, out of range or unknown
OrderFiles ==
    {InsertAt(Triangle(30, 30), k, ln) : k \in 1..2, ln \in EarlyLines}
    \cup {InsertAt(Triangle(30, 30), k, LnP("min", <<2, 2, 0, 2, 0>>)) : k \in {3, 9, 15}}
    \cup {InsertAt(Triangle(30, 30), k, ln) : k \in {3, 15}, ln \in RangeLines}
    \cup {InsertAt(Triangle(30, 30), k, ln) : k \in {1, 3, 15}, ln \in UnknownLines}

\* the triangle with other internal points, and with x lines missing
InitValues == {-5, 0, PolytopeEps, PolytopeEps + 1, 30}
InitFiles ==
    {Triangle(e1, e2) : e1 \in InitValues, e2 \in InitValues}
    \cup {RemoveAt(Triangle(30, 30), 13), RemoveAt(Triangle(30, 30), 14),
          RemoveAt(RemoveAt(Triangle(30, 30), 14), 13)}

\* the triangle with the j line of column 1, or the i line of row 1, replaced
\* by one of every bound kind with 0 to 3 values
BoundKinds == {"f", "l", "u", "s", "d", "q"}
BoundValues == {<< >>, <<0>>, <<0, Scale>>, <<0, Scale, 5>>}
BoundFiles ==
    {ReplaceAt(Triangle(30, 30), 3, LnJ(1, c, v)) : c \in BoundKinds, v \in BoundValues}
    \cup {ReplaceAt(Triangle(30, 30), 7, LnI(1, c, v)) : c \in BoundKinds, v \in BoundValues}

\* problems with both header directions and several coefficients
DirFiles ==
    {Problem(dir, a12, oc, 30, 30) :
         dir \in {"min", "max"}, a12 \in {Scale, 2 * Scale, 0 - Scale},
         oc \in {Scale, 0 - Scale, 3 * Scale}}

\* the triangle with a line after its e line, and with an e line before its
\* x lines
AfterEndLines ==
    {LnC, LnX(1, 50), LnJ(1, "u", <<Scale>>), LnA(1, 2, 2 * Scale),
     LnP("min", <<2, 2, 0, 2, 0>>), Line("z", "", <<1>>, "", << >>)}
AfterEndFiles ==
    {Append(Triangle(30, 30), ln) : ln \in AfterEndLines}
    \cup {InsertAt(Triangle(30, 30), 13, LnE)}

LoadFiles == OrderFiles \cup InitFiles \cup BoundFiles \cup DirFiles \cup AfterEndFiles

LoadScenarios ==
    {<<Params(VlpFile(TRUE, f), sh, FALSE), Env("exact", "ok", "steady")>> :
         f \in LoadFiles, sh \in BOOLEAN}

InitLoad == InitWith(LoadScenarios)

NextLoad == Load

SpecLoad == InitLoad /\ [][NextLoad]_vars

(* ------------------------------------------------------------------ *)
(* load_vlp and initialize_oracle over every outcome of the shuffle      *)
(* ------------------------------------------------------------------ *)
\* the raw random numbers perm_array draws for 4 rows and 3 columns: every
\* pair of permutations comes from one of these streams
RandomStreams ==
    {<<a, b, c, d, e>> : a \in 0..3, b \in 0..2, c \in 0..1, d \in 0..2, e \in 0..1}

\* x>=0, 0<=y<=0.8, x+2y<=1, 3x+y>=0.05 in the objectives x and y, with the
\* internal point (0.2,0.3): no two rows and no two columns look alike
Asym ==
    << LnC,
       LnP("min", <<2, 2, 0, 2, 0>>),
       LnJ(1, "l", <<0>>), LnJ(2, "d", <<0, 80>>),
       LnA(1, 1, Scale), LnA(1, 2, 2 * Scale), LnI(1, "u", <<Scale>>),
       LnA(2, 1, 3 * Scale), LnA(2, 2, Scale), LnI(2, "l", <<5>>),
       LnO(1, 1, Scale), LnO(2, 2, Scale),
       LnX(1, 20), LnX(2, 30),
       LnE >>

ShuffleFiles ==
    {Triangle(30, 30), Triangle(60, 60), Triangle(30, 0), Skew, MaxTriangle, Asym}

\* every file with every stream, glp_simplex succeeding; and one file with
\* glp_simplex returning what it likes
ShuffleScenarios ==
    {<<Params(VlpFile(TRUE, f), sh, FALSE),
       [Env("exact", "ok", "steady") EXCEPT !.random = rs]>> :
         f \in ShuffleFiles, sh \in BOOLEAN, rs \in RandomStreams}
    \cup
    {<<Params(VlpFile(TRUE, Asym), sh, FALSE),
       [Env("exact", "any", "steady") EXCEPT !.random = rs]>> :
         sh \in BOOLEAN, rs \in {<<0, 0, 0, 0, 0>>, <<3, 1, 1, 2, 0>>}}

InitShuffle == InitWith(ShuffleScenarios)

NextShuffle == Load \/ Initialize

SpecShuffle == InitShuffle /\ [][NextShuffle]_vars

(* ------------------------------------------------------------------ *)
(* Properties                                                           *)
(* ------------------------------------------------------------------ *)
\* the call that has just returned
Returned(op) == last.op = op
AskReturned(ret) == last.op = "ask_oracle" /\ last.ret = ret

\* the values of the equation in vfacet at the request in vvertex and at the
\* internal point vlp_init, in units of 1/Scale^2
QuerySide == SumTo([i \in 1..(vobjs + 1) |-> vvertex[i - 1] * vfacet[i - 1]], vobjs + 1)
InteriorSide ==
    vfacet[vobjs] * Scale + SumTo([i \in 1..vobjs |-> vlp_init[i] * vfacet[i - 1]], vobjs)

\* C1, as stated: whenever ask_oracle returns ORACLE_OK, the request evaluates
\* to at most 0 under the facet left in vfacet, and the internal point evaluates
\* to more than PolytopeEps.
SeparationStrict ==
    AskReturned(ORACLE_OK) =>
        /\ QuerySide <= 0
        /\ InteriorSide > PolytopeEps * Scale

\* C1, amended: whenever ask_oracle returns ORACLE_OK, the request evaluates to
\* at most 0 under the facet left in vfacet, and the internal point evaluates to
\* at least PolytopeEps.
SeparationInvariant ==
    AskReturned(ORACLE_OK) =>
        /\ QuerySide <= 0
        /\ InteriorSide >= PolytopeEps * Scale

\* ask_oracle has returned ORACLE_OK with a facet for a finite request
SeparationWitness ==
    /\ AskReturned(ORACLE_OK)
    /\ vvertex[vobjs] # 0
    /\ QuerySide <= 0
    /\ InteriorSide >= PolytopeEps * Scale

\* the vlp file describes the triangle x>=0, y>=0, x+y<=1
IsTriangle == \E e1, e2 \in 0..Scale : PARAMS.VlpFile = VlpFile(TRUE, Triangle(e1, e2))
\* the request vx is a finite point strictly inside the triangle
StrictlyInside(vx) ==
    /\ vx[2] = Scale
    /\ vx[0] > 0
    /\ vx[1] > 0
    /\ vx[0] + vx[1] < Scale
\* the distance of the internal point from the nearest side of the triangle
TriangleSlack(init) == SetMin({init[1], init[2], Scale - init[1] - init[2]})

\* C2: for a finite request strictly inside the polytope, such as (0.4,0.4,1)
\* for the triangle with the internal point (0.3,0.3), ask_oracle returns
\* ORACLE_UNBND when glpk solves the problem exactly.
InsideQueryIsInside ==
    (/\ env.solver = "exact"
     /\ env.rets = "ok"
     /\ PARAMS.VlpFile = VlpFile(TRUE, Triangle(30, 30))
     /\ P.obj_dir = "GLP_MAX"
     /\ Returned("ask_oracle")
     /\ StrictlyInside(vvertex))
    => last.ret = ORACLE_UNBND

\* C3: when glp_simplex stops at its iteration or time limit, ask_oracle
\* returns ORACLE_LIMIT and reports nothing fatal.
LimitIsOrdinary ==
    (Returned("ask_oracle") /\ simplex.ret \in {GLP_EITLIM, GLP_ETMLIM})
    => (last.ret = ORACLE_LIMIT /\ rep.lvl # "R_fatal")

\* C4: initialize_oracle does not return ORACLE_OK when the internal point is
\* feasible but within PolytopeEps of a side of the polytope: it returns
\* ORACLE_EMPTY or ORACLE_FAIL.
BoundaryPointRejected ==
    (/\ env.solver = "exact"
     /\ env.rets = "ok"
     /\ IsTriangle
     /\ Returned("initialize_oracle")
     /\ TriangleSlack(vlp_init) \in 0..PolytopeEps)
    => last.ret \in {ORACLE_EMPTY, ORACLE_FAIL}

\* C5: when load_vlp fails because an a line precedes the p line, P is what it
\* was before load_vlp was called: no problem object is held.
NoProblemAfterBadOrder ==
    (/\ Returned("load_vlp")
     /\ last.ret # 0
     /\ PARAMS.VlpFile = VlpFile(TRUE, BadOrder))
    => P = NullProb

\* C6: once initialize_oracle or ask_oracle has returned ORACLE_FAIL, no later
\* ask_oracle returns ORACLE_OK or ORACLE_UNBND.
FailIsTerminal ==
    [][(failed /\ last'.op = "ask_oracle" /\ oracle_calls' # oracle_calls)
       => last'.ret \notin {ORACLE_OK, ORACLE_UNBND}]_vars

\* C7: in ask_oracle after call_glp returned 0: status GLP_UNBND with an ideal
\* request gives ORACLE_UNBND, GLP_UNBND with a finite request gives
\* ORACLE_FAIL, a status other than GLP_OPT and GLP_UNBND gives ORACLE_FAIL, and
\* without GLP_OPT vfacet is left as it was and no lambda is judged.
AskStatusCases ==
    [][(last'.op = "ask_oracle" /\ oracle_calls' # oracle_calls /\ simplex'.ret = 0)
       => /\ (simplex'.stat = GLP_UNBND /\ vvertex[vobjs] = 0) => last'.ret = ORACLE_UNBND
          /\ (simplex'.stat = GLP_UNBND /\ vvertex[vobjs] # 0) => last'.ret = ORACLE_FAIL
          /\ simplex'.stat \notin {GLP_OPT, GLP_UNBND} => last'.ret = ORACLE_FAIL
          /\ simplex'.stat # GLP_OPT =>
                /\ vfacet' = vfacet
                /\ last'.ret # ORACLE_OK
                /\ rep'.msg \in {"", "The oracle says (status)",
                                 "The oracle says: problem unbounded"}
          /\ last'.ret = ORACLE_OK => simplex'.stat = GLP_OPT]_vars

\* ask_oracle has found an unbounded problem for a finite request
AskStatusWitness ==
    /\ AskReturned(ORACLE_FAIL)
    /\ simplex.ret = 0
    /\ simplex.stat = GLP_UNBND
    /\ vvertex[vobjs] # 0

\* C8: initialize_oracle solves with direction GLP_MIN (the minimum of lambda
\* over a non-empty polytope exists, and the exact solver finds it); it returns
\* ORACLE_OK exactly when call_glp returned 0 and the status is GLP_OPT,
\* ORACLE_EMPTY for status GLP_NOFEAS, ORACLE_FAIL for every other status and
\* every non-zero return; after ORACLE_OK the direction is GLP_MAX again.
InitializeCases ==
    Returned("initialize_oracle") =>
        /\ last.ret = ORACLE_OK <=> (simplex.ret = 0 /\ simplex.stat = GLP_OPT)
        /\ (simplex.ret = 0 /\ simplex.stat = GLP_NOFEAS) => last.ret = ORACLE_EMPTY
        /\ (simplex.ret # 0 \/ simplex.stat \notin {GLP_OPT, GLP_NOFEAS})
              => last.ret = ORACLE_FAIL
        /\ last.ret = ORACLE_OK => P.obj_dir = "GLP_MAX"
        /\ last.ret # ORACLE_OK => P.obj_dir = "GLP_MIN"
        /\ (env.solver = "exact" /\ simplex.ret = 0 /\ TriangleSlack(vlp_init) >= 0)
              => last.ret = ORACLE_OK

\* initialize_oracle has returned ORACLE_OK and the direction is GLP_MAX
InitializeWitness ==
    /\ Returned("initialize_oracle")
    /\ last.ret = ORACLE_OK
    /\ simplex.stat = GLP_OPT
    /\ P.obj_dir = "GLP_MAX"

\* C9: call_glp calls glp_simplex again after GLP_EBADB or GLP_ESING (once),
\* and after GLP_EFAIL (once more); any other return of the first call ends
\* call_glp after exactly one call; call_glp returns what the last call returned.
RetryLadder ==
    simplex.rets # << >> =>
        LET s == simplex.rets
            n == Len(simplex.rets)
        IN  /\ n \in 1..3
            /\ simplex.ret = s[n]
            /\ s[1] \notin {GLP_EBADB, GLP_ESING, GLP_EFAIL} => n = 1
            /\ s[1] \in {GLP_EBADB, GLP_ESING} => (n >= 2 /\ (n = 3 <=> s[2] = GLP_EFAIL))
            /\ s[1] = GLP_EFAIL => n = 2

\* call_glp has called glp_simplex three times, the first for a singular basis
RetryLadderWitness ==
    /\ Len(simplex.rets) = 3
    /\ simplex.rets[1] = GLP_ESING
    /\ simplex.rets[2] = GLP_EFAIL

\* C10: every initialize_oracle and ask_oracle raises oracle_calls by the number
\* of glp_simplex calls it made, between 1 and 3, and oracle_calls and
\* oracle_time never decrease.
CountersNeverDecrease ==
    [][/\ oracle_calls' >= oracle_calls
       /\ oracle_time' >= oracle_time
       /\ IF last'.op \in {"initialize_oracle", "ask_oracle"}
          THEN /\ oracle_calls' - oracle_calls = Len(simplex'.rets)
               /\ Len(simplex'.rets) \in 1..3
          ELSE oracle_calls' = oracle_calls]_vars

\* the part of C10 about oracle_calls alone
CallsCountAttempts ==
    [][/\ oracle_calls' >= oracle_calls
       /\ IF last'.op \in {"initialize_oracle", "ask_oracle"}
          THEN /\ oracle_calls' - oracle_calls = Len(simplex'.rets)
               /\ Len(simplex'.rets) \in 1..3
          ELSE oracle_calls' = oracle_calls]_vars

\* C11: with glpk a function of the problem, an ask_oracle that directly
\* follows an ask_oracle with the same request returns what the first one
\* returned and leaves in vfacet what the first one left, whatever was asked
\* before.
RepeatedAskSame ==
    [][(/\ env.solver = "exact"
        /\ env.rets = "ok"
        /\ last.op = "ask_oracle"
        /\ last'.op = "ask_oracle"
        /\ oracle_calls' # oracle_calls)
       => (last'.ret = last.ret /\ vfacet' = vfacet /\ rep' = rep)]_vars

\* the second of two ask_oracle calls in a row has returned a facet, after
\* another request had been asked before them
RepeatedAskWitness ==
    /\ env.solver = "exact"
    /\ env.rets = "ok"
    /\ Returned("ask_oracle")
    /\ last.again
    /\ last.ret = ORACLE_OK
    /\ oracle_calls >= 4

\* C12: get_oracle_stat changes nothing: oracle_calls, oracle_time, the problem
\* P, the internal point and the request and response buffers are what they
\* were, as is everything else a later initialize_oracle or ask_oracle reads;
\* it reports oracle_calls and oracle_time in 0.01 seconds.
GetStatChangesNothing ==
    [][last'.op = "get_oracle_stat"
       => /\ UNCHANGED <<oracle_calls, oracle_time, P, vlp_init, vvertex, vfacet>>
          /\ UNCHANGED <<PARAMS, vlp_objidx, vlp_lambda, lambda_idx, pc, env>>
          /\ last'.out = <<oracle_calls, ((oracle_time + 5) % ULongMod) \div 10>>]_vars

\* get_oracle_stat has returned after two asks, between operations
GetStatWitness ==
    /\ Returned("get_oracle_stat")
    /\ pc = "inited"
    /\ oracle_calls >= 3
    /\ last.out[1] = oracle_calls

\* the sum of the absolute values of the vobjs normal coefficients in vfacet
FacetL1 == SumTo([i \in 1..vobjs |-> Abs(vfacet[i - 1])], vobjs)

FileLines == PARAMS.VlpFile.lines
SeenP(k) == \E m \in 1..(k - 1) : FileLines[m].k = "p"
HeaderNums ==
    FileLines[CHOOSE m \in 1..Len(FileLines) : FileLines[m].k = "p" /\ ~SeenP(m)].nums
\* the line has an index outside 1..rows, 1..cols or 1..objs
OutOfRange(ln) ==
    LET rows == HeaderNums[1]
        cols == HeaderNums[2]
        objs == HeaderNums[4]
    IN  CASE ln.k = "j" -> ln.nums[1] \notin 1..cols
          [] ln.k = "i" -> ln.nums[1] \notin 1..rows
          [] ln.k = "a" -> ln.nums[1] \notin 1..rows \/ ln.nums[2] \notin 1..cols
          [] ln.k = "o" -> ln.nums[1] \notin 1..objs \/ ln.nums[2] \notin 1..cols
          [] ln.k = "x" -> ln.nums[1] \notin 1..objs
          [] OTHER -> FALSE
\* line k is a j, i, a, o or x line before the p line, a second p line, a line
\* with an index out of range, or a line with an unknown first character
OrderError(k) ==
    \/ FileLines[k].k \in {"j", "i", "a", "o", "x"} /\ ~SeenP(k)
    \/ FileLines[k].k = "p" /\ SeenP(k)
    \/ FileLines[k].k \notin {"c", "e", "p", "j", "i", "a", "o", "x"}
    \/ SeenP(k) /\ OutOfRange(FileLines[k])
HasOrderError == \E k \in 1..Len(FileLines) : OrderError(k)
FirstOrderError ==
    CHOOSE k \in 1..Len(FileLines) : OrderError(k) /\ \A m \in 1..(k - 1) : ~OrderError(m)

\* C14: for a file with a j, i, a, o or x line before the p line, a second p
\* line, an index out of range or an unknown first character, load_vlp returns
\* 1 with a fatal report, and P and the internal point are what the lines
\* before the first such line made them: no later line is processed.
OrderErrorsAbort ==
    (Returned("load_vlp") /\ HasOrderError) =>
        LET pre == LoadLines(LoadStart, SubSeq(FileLines, 1, FirstOrderError - 1), 1,
                             PARAMS.ShuffleMatrix, env.random)
        IN  /\ last.ret = 1
            /\ pc = "loadfail"
            /\ rep.lvl = "R_fatal"
            /\ P = pre.P
            /\ vlp_init = pre.g.vlp_init

\* load_vlp has failed at a line after the p line, with lines still to come
OrderErrorsWitness ==
    /\ Returned("load_vlp")
    /\ HasOrderError
    /\ FirstOrderError \in 3..(Len(FileLines) - 2)
    /\ last.ret = 1
    /\ P.m > 0

\* the x lines for coordinate i, and the value the last of them gives
XLinesOf(i) ==
    {k \in 1..Len(FileLines) : FileLines[k].k = "x" /\ FileLines[k].nums = <<i>>}
XValue(i) == FileLines[SetMax(XLinesOf(i))].vals[1]

\* C15, as stated: for a file without other errors load_vlp returns 0 only if
\* every coordinate of the internal point is above PolytopeEps; a coordinate
\* equal to or below PolytopeEps, or without an x line, makes it return 1.
InitMustExceed ==
    (Returned("load_vlp") /\ FileLines \in InitFiles) =>
        (last.ret = 0 <=>
            \A i \in 1..HeaderNums[4] : XLinesOf(i) # {} /\ XValue(i) > PolytopeEps)

\* C15, amended: for a file without other errors load_vlp returns 0 exactly
\* when every coordinate of the internal point has an x line and is at least
\* PolytopeEps; a coordinate below PolytopeEps, or without an x line, makes it
\* return 1 after the whole file is read.
InitAtLeastEps ==
    (Returned("load_vlp") /\ FileLines \in InitFiles) =>
        /\ last.ret = 0 <=>
              \A i \in 1..HeaderNums[4] : XLinesOf(i) # {} /\ XValue(i) >= PolytopeEps
        /\ last.ret # 0 => (rep = Fatal("initial value not positive") /\ P.m > 0)

\* load_vlp has returned 0 for an internal point with a coordinate equal to
\* PolytopeEps
InitAtLeastEpsWitness ==
    /\ Returned("load_vlp")
    /\ FileLines \in InitFiles
    /\ last.ret = 0
    /\ vlp_init[1] = PolytopeEps

\* the number of values the bound kind ctrl takes; -1 for an unknown kind
BoundArity(ctrl) ==
    CASE ctrl = "f" -> 0
      [] ctrl \in {"l", "u", "s"} -> 1
      [] ctrl = "d" -> 2
      [] OTHER -> 0 - 1

\* the j and i lines whose number of values is not the one of their bound kind
ArityErrors ==
    {k \in 1..Len(FileLines) :
        /\ FileLines[k].k \in {"j", "i"}
        /\ Len(FileLines[k].vals) # BoundArity(FileLines[k].ctrl)}

\* C16: a j or i line is accepted only when the number of values after the
\* bound kind is 0 for f, 1 for l, u and s, and 2 for d; with any other count,
\* or an unknown bound kind, load_vlp returns 1 and the line sets no bound.
BoundArityExact ==
    (Returned("load_vlp") /\ FileLines \in BoundFiles) =>
        /\ last.ret = 0 <=> ArityErrors = {}
        /\ ArityErrors # {} =>
              P = LoadLines(LoadStart, SubSeq(FileLines, 1, SetMin(ArityErrors) - 1), 1,
                            PARAMS.ShuffleMatrix, env.random).P

\* the row and column of P a file index stands for, as allocate_vlp laid
\* them out for the header of the file
FileIdx ==
    allocate_vlp(HeaderNums[1], HeaderNums[2], HeaderNums[4],
                 PARAMS.ShuffleMatrix, env.random)

\* the sign load_vlp gives the o coefficients of the file
HeaderSign == IF FileLines[2].dir = "max" THEN 0 - 1 ELSE 1

\* C17: after load_vlp has read a file, every o coefficient is in the matrix
\* of P negated when the header says max and unchanged when it says min, and
\* every a coefficient is there unchanged under either direction.
DirectionNegatesO ==
    (Returned("load_vlp") /\ last.ret = 0 /\ FileLines \in DirFiles) =>
        \A k \in 1..Len(FileLines) :
            LET ln == FileLines[k]
            IN  /\ ln.k = "o" =>
                     P.mat[FileIdx.vlp_colidx[ln.nums[2]]][FileIdx.vlp_objidx[ln.nums[1]]]
                         = HeaderSign * ln.vals[1]
                /\ ln.k = "a" =>
                     P.mat[FileIdx.vlp_colidx[ln.nums[2]]][FileIdx.vlp_rowidx[ln.nums[1]]]
                         = ln.vals[1]

\* load_vlp has read a max file with a nonzero o coefficient and a negative a
\* coefficient, with shuffled rows and columns
DirectionNegatesOWitness ==
    /\ Returned("load_vlp")
    /\ last.ret = 0
    /\ FileLines \in DirFiles
    /\ FileLines[2].dir = "max"
    /\ PARAMS.ShuffleMatrix
    /\ FileLines[11].k = "o" /\ FileLines[11].vals[1] = 3 * Scale
    /\ FileLines[6].k = "a" /\ FileLines[6].vals[1] = 0 - Scale
    /\ P.mat[FileIdx.vlp_colidx[1]][FileIdx.vlp_objidx[1]] = 0 - (3 * Scale)

\* ask_oracle has answered the ideal direction (1,0) on the triangle with the
\* internal point (0.3,0.3), after initialize_oracle returned ORACLE_OK (which
\* alone leaves the direction of P at GLP_MAX), glpk having solved the problem
TriangleIdealAsked ==
    /\ Returned("ask_oracle")
    /\ P.obj_dir = "GLP_MAX"
    /\ PARAMS.VlpFile = VlpFile(TRUE, Triangle(30, 30))
    /\ vvertex = Request3(Scale, 0, 0)
    /\ env.solver = "exact"
    /\ simplex.ret = 0

\* C18: on the triangle x>=0, y>=0, x+y<=1 with the internal point (0.3,0.3),
\* ask_oracle for the ideal direction (1,0,0) returns ORACLE_OK with the facet
\* x+y<=1 normalized: vfacet is a nonzero multiple of (0.5, 0.5, -0.5) whose
\* first two coefficients have absolute values summing to 1.
TriangleIdealFacet ==
    TriangleIdealAsked =>
        /\ last.ret = ORACLE_OK
        /\ vfacet[0] # 0
        /\ vfacet[1] = vfacet[0]
        /\ vfacet[2] = 0 - vfacet[0]
        /\ FacetL1 = Scale

\* the facet comes out as (-0.5, -0.5, 0.5), with shuffled rows and columns
TriangleIdealWitness ==
    /\ TriangleIdealAsked
    /\ PARAMS.ShuffleMatrix
    /\ last.ret = ORACLE_OK
    /\ vfacet = Request3(0 - 50, 0 - 50, 50)

\* ask_oracle has returned after glpk solved its problem to optimality
AskSolvedOptimal ==
    /\ Returned("ask_oracle")
    /\ simplex.ret = 0
    /\ simplex.stat = GLP_OPT

\* C19: after an optimal solve with value lambda, ask_oracle returns
\* ORACLE_FAIL when lambda is within PolytopeEps of 0, for ideal and finite
\* requests alike; for a finite request it returns ORACLE_UNBND (inside) when
\* lambda is above 1-PolytopeEps and not above 1+PolytopeEps, and ORACLE_FAIL
\* when lambda is above 1+PolytopeEps; for an ideal request no such check
\* applies and it never returns ORACLE_UNBND.
DegenerateLambda ==
    AskSolvedOptimal =>
        LET lambda == simplex.obj_val
        IN  /\ lambda <= PolytopeEps => last.ret = ORACLE_FAIL
            /\ (vvertex[vobjs] # 0 /\ lambda > Scale - PolytopeEps
                    /\ lambda <= Scale + PolytopeEps) => last.ret = ORACLE_UNBND
            /\ (vvertex[vobjs] # 0 /\ lambda > Scale + PolytopeEps) => last.ret = ORACLE_FAIL
            /\ vvertex[vobjs] = 0 => last.ret # ORACLE_UNBND

\* a finite request with lambda at 1+PolytopeEps was answered ORACLE_UNBND
DegenerateLambdaWitness ==
    /\ AskSolvedOptimal
    /\ vvertex[vobjs] # 0
    /\ simplex.obj_val = Scale + PolytopeEps
    /\ last.ret = ORACLE_UNBND

\* further cases of C19 that are reached
DegenerateLambdaZero ==
    AskSolvedOptimal /\ simplex.obj_val <= PolytopeEps /\ vvertex[vobjs] = 0
        /\ last.ret = ORACLE_FAIL
DegenerateLambdaAbove ==
    AskSolvedOptimal /\ simplex.obj_val > Scale + PolytopeEps /\ vvertex[vobjs] # 0
        /\ last.ret = ORACLE_FAIL
DegenerateLambdaIdeal ==
    AskSolvedOptimal /\ simplex.obj_val >= Scale /\ vvertex[vobjs] = 0
        /\ last.ret = ORACLE_OK

\* the direction of the request in vvertex
RequestDirection ==
    [i \in 1..vobjs |->
        IF vvertex[vobjs] = 0 THEN 0 - vvertex[i - 1] ELSE vlp_init[i] - vvertex[i - 1]]

\* C20: the problem ask_oracle has solved holds in its lambda column the
\* direction of the current request and nothing else: in the row of objective
\* i the coefficient is -vvertex[i-1] for an ideal request and
\* vlp_init[i]-vvertex[i-1] for a finite one, and in every other row it is 0,
\* whatever the previous request was.
LambdaColumnIsDirection ==
    Returned("ask_oracle") =>
        /\ vlp_lambda = RequestDirection
        /\ \A r \in 1..P.m :
              P.mat[lambda_idx][r] =
                  IF \E i \in 1..vobjs : vlp_objidx[i] = r
                  THEN RequestDirection[CHOOSE i \in 1..vobjs : vlp_objidx[i] = r]
                  ELSE 0

\* ask_oracle has answered an ideal request, not for the first time, with
\* shuffled rows and columns
LambdaColumnWitness ==
    /\ Returned("ask_oracle")
    /\ PARAMS.ShuffleMatrix
    /\ oracle_calls >= 3
    /\ vvertex = Request3(Scale, 0, 0)
    /\ P.mat[lambda_idx][vlp_objidx[1]] = 0 - Scale
    /\ P.mat[lambda_idx][vlp_objidx[2]] = 0
    /\ vlp_objidx # <<3, 4>>

\* what load_vlp gives for the file of the run with ShuffleMatrix off
Unshuffled == load_vlp(FileLines, FALSE, env.random)

\* the problem lp is the problem base with row i moved to rowidx[i] and
\* column j moved to colidx[j]
PermutedProblem(lp, base, rowidx, colidx) ==
    /\ lp.m = base.m
    /\ lp.n = base.n
    /\ lp.obj_dir = base.obj_dir
    /\ \A i \in 1..base.m : lp.row_bnds[rowidx[i]] = base.row_bnds[i]
    /\ \A j \in 1..base.n :
          /\ lp.col_bnds[colidx[j]] = base.col_bnds[j]
          /\ lp.obj_coef[colidx[j]] = base.obj_coef[j]
          /\ \A i \in 1..base.m : lp.mat[colidx[j]][rowidx[i]] = base.mat[j][i]

\* what initialize_oracle returns on the unshuffled problem when call_glp
\* returns ret and glpk finds the exact optimum
UnshuffledClass(ret) ==
    LET lp == InitProblem(Unshuffled.P)
    IN  initialize_oracle(lp, ret, IF ret = 0 THEN GlpExact(lp)
                                   ELSE Solution(GLP_UNDEF, 0, << >>)).ret

\* C21: load_vlp with ShuffleMatrix on returns what it returns with it off,
\* and after a return of 0 the problem P is the unshuffled problem with its
\* rows and columns moved by vlp_rowidx and vlp_colidx (coefficients, row and
\* column bounds, the fixed bounds of the objective rows, the bound and the
\* objective coefficient of the lambda column); initialize_oracle then
\* returns the same one of ORACLE_OK, ORACLE_EMPTY, ORACLE_FAIL as on the
\* unshuffled problem.
ShuffleKeepsProblem ==
    /\ Returned("load_vlp") =>
          /\ last.ret = Unshuffled.ret
          /\ last.ret = 0 =>
                /\ PermutedProblem(P, Unshuffled.P, FileIdx.vlp_rowidx, FileIdx.vlp_colidx)
                /\ vlp_objidx = [i \in 1..vobjs |-> FileIdx.vlp_rowidx[i + PARAMS.ProblemRows]]
                /\ lambda_idx = FileIdx.vlp_colidx[PARAMS.ProblemColumns + 1]
                /\ vlp_init = Unshuffled.g.vlp_init
    /\ Returned("initialize_oracle") => last.ret = UnshuffledClass(simplex.ret)

\* initialize_oracle has found the polytope empty on a problem whose rows and
\* columns were both moved
ShuffleKeepsProblemWitness ==
    /\ Returned("initialize_oracle")
    /\ PARAMS.ShuffleMatrix
    /\ last.ret = ORACLE_EMPTY
    /\ vlp_objidx # <<3, 4>>
    /\ lambda_idx # 3

\* further cases of C21 that are reached
ShuffleLoadedMoved ==
    /\ Returned("load_vlp") /\ last.ret = 0 /\ PARAMS.ShuffleMatrix
    /\ FileLines = Asym
    /\ FileIdx.vlp_rowidx = [i \in 0..4 |-> IF i = 0 THEN 0 ELSE 5 - i]
    /\ FileIdx.vlp_colidx[1] = 3
ShuffleInitOk ==
    Returned("initialize_oracle") /\ PARAMS.ShuffleMatrix /\ last.ret = ORACLE_OK
        /\ lambda_idx = 1
ShuffleInitFail ==
    Returned("initialize_oracle") /\ PARAMS.ShuffleMatrix /\ last.ret = ORACLE_FAIL

\* idx[1..len] takes every value of 1..len, each once
IsPermutation(idx, len) ==
    /\ \A i \in 1..len : idx[i] \in 1..len
    /\ \A i, k \in 1..len : idx[i] = idx[k] => i = k

\* C22: once the p line is processed, with ShuffleMatrix on or off and for
\* every stream of random numbers, vlp_rowidx is a permutation of
\* 1..rows+objs and vlp_colidx a permutation of 1..cols+1; so vlp_objidx is
\* injective, no objective row is the row of a constraint, and lambda_idx is
\* the index of no column of the file.
IndexMapsArePermutations ==
    (Returned("load_vlp") /\ PARAMS.ProblemRows > 0) =>
        LET rows == PARAMS.ProblemRows
            cols == PARAMS.ProblemColumns
        IN  /\ IsPermutation(FileIdx.vlp_rowidx, rows + vobjs)
            /\ IsPermutation(FileIdx.vlp_colidx, cols + 1)
            /\ vlp_objidx = [i \in 1..vobjs |-> FileIdx.vlp_rowidx[i + rows]]
            /\ lambda_idx = FileIdx.vlp_colidx[cols + 1]
            /\ \A i, k \in 1..vobjs : vlp_objidx[i] = vlp_objidx[k] => i = k
            /\ \A i \in 1..vobjs, r \in 1..rows : vlp_objidx[i] # FileIdx.vlp_rowidx[r]
            /\ \A j \in 1..cols : lambda_idx # FileIdx.vlp_colidx[j]

\* the shuffle has put the objective rows between the constraint rows, in
\* reverse order, and the lambda column between the columns of the file
IndexMapsWitness ==
    /\ Returned("load_vlp")
    /\ PARAMS.ProblemRows > 0
    /\ PARAMS.ShuffleMatrix
    /\ vlp_objidx = <<3, 1>>
    /\ lambda_idx = 2

\* C23: after load_vlp returned 0 the lambda column of P has the coefficient
\* 0 in every row, whatever a and o lines were read, its bound is GLP_LO at 0,
\* its objective coefficient is 1 and no other column has one, the direction
\* is GLP_MAX, and the row of objective i is fixed at vlp_init[i].
LoadedLambdaColumn ==
    (Returned("load_vlp") /\ last.ret = 0) =>
        /\ \A r \in 1..P.m : P.mat[lambda_idx][r] = 0
        /\ P.col_bnds[lambda_idx] = Bnd("GLP_LO", 0, 0)
        /\ \A j \in 1..P.n : P.obj_coef[j] = IF j = lambda_idx THEN Scale ELSE 0
        /\ P.obj_dir = "GLP_MAX"
        /\ \A i \in 1..vobjs :
              P.row_bnds[vlp_objidx[i]] = Bnd("GLP_FX", vlp_init[i], vlp_init[i])

\* a max file with a negative a coefficient and o coefficients of 3 is
\* loaded, the lambda column shuffled to the middle
LoadedLambdaColumnWitness ==
    /\ Returned("load_vlp")
    /\ last.ret = 0
    /\ PARAMS.ShuffleMatrix
    /\ FileLines = Problem("max", 0 - Scale, 3 * Scale, 30, 30)
    /\ lambda_idx = 2
    /\ P.row_bnds[vlp_objidx[2]].lb = 30

\* the first e line of the file
HasEndLine == \E k \in 1..Len(FileLines) : FileLines[k].k = "e"
EndLine == SetMin({k \in 1..Len(FileLines) : FileLines[k].k = "e"})

\* C24: an e line ends the description: load_vlp returns, and leaves in P and
\* vlp_init, what it does for the file cut after its first e line, so the
\* lines after it neither change the problem nor make the load fail.
EndLineEnds ==
    (Returned("load_vlp") /\ HasEndLine) =>
        LET cut == load_vlp(SubSeq(FileLines, 1, EndLine), PARAMS.ShuffleMatrix, env.random)
        IN  /\ last.ret = cut.ret
            /\ P = cut.P
            /\ vlp_init = cut.g.vlp_init

\* cases of C24 that are reached: a line after the e line has changed the
\* internal point, and an unknown line after the e line has made the load fail
EndLineThenX ==
    /\ Returned("load_vlp") /\ last.ret = 0
    /\ FileLines = Append(Triangle(30, 30), LnX(1, 50))
    /\ vlp_init[1] = 50
EndLineThenUnknown ==
    /\ Returned("load_vlp") /\ last.ret = 1
    /\ FileLines = Append(Triangle(30, 30), Line("z", "", <<1>>, "", << >>))

\* what a step after a successful load_vlp leaves alone
FrozenStep ==
    pc \in {"loaded", "inited"} =>
        /\ vlp_init' = vlp_init
        /\ \A i \in 1..vobjs : vlp_init'[i] >= PolytopeEps
        /\ last'.op = "ask_oracle" =>
              /\ vvertex' = vvertex
              /\ vfacet' # vfacet =>
                    /\ simplex'.ret = 0
                    /\ simplex'.stat = GLP_OPT
                    /\ simplex'.obj_val >= 10 * PolytopeEps
                    /\ vvertex[vobjs] = 0 \/ simplex'.obj_val <= Scale - PolytopeEps

\* C25: from a successful load_vlp on, no call of initialize_oracle,
\* ask_oracle or get_oracle_stat changes vlp_init, whose coordinates stay at
\* least PolytopeEps; ask_oracle does not write the request vvertex, and it
\* writes the response vfacet only when glp_simplex returned 0 with an optimal
\* solution whose lambda passed the checks against 0 and 1.
InteriorPointFrozen == [][FrozenStep]_vars

\* an ask_oracle whose glp_simplex failed has returned after one that gave a
\* facet: the facet and the internal point are as they were
InteriorPointFrozenWitness ==
    /\ Returned("ask_oracle")
    /\ last.ret = ORACLE_FAIL
    /\ simplex.ret # 0
    /\ vfacet = Request3(0 - 50, 0 - 50, 50)
    /\ vlp_init = <<30, 30>>
    /\ vvertex[vobjs] # 0

\* ask_oracle has returned after it computed the offset of the facet
OffsetComputed ==
    /\ Returned("ask_oracle")
    /\ \/ last.ret = ORACLE_OK
       \/ rep \in {Fatal("Numerical error: vertex is on the negative side"),
                   Fatal("Initial point is on the negative side of the next facet")}

\* sum of vfacet[i-1]*(vlp_init[i]-lambda*vlp_lambda[i]) over the objectives,
\* the value of the coefficients of the facet at the boundary point, in units
\* of 1/Scale^3
BoundarySum ==
    SumTo([i \in 1..vobjs |->
              vfacet[i - 1] * (vlp_init[i] * Scale - simplex.obj_val * vlp_lambda[i])], vobjs)

\* C26: without rounding, the offset vfacet[vobjs] ask_oracle returns is minus
\* the sum of vfacet[i-1]*(vlp_init[i]-lambda*vlp_lambda[i]), for ideal and
\* finite requests alike, so the equation in vfacet is 0 (to the precision of
\* the numbers) at the boundary point vlp_init-lambda*vlp_lambda.
OffsetThroughBoundary ==
    (OffsetComputed /\ ~PARAMS.RoundFacets) =>
        /\ vfacet[vobjs] = Quot(0 - BoundarySum, Scale * Scale)
        /\ 2 * Abs(vfacet[vobjs] * Scale * Scale + BoundarySum) <= Scale * Scale

\* an ideal request was answered with a facet, lambda being 0.4, and the
\* internal point is not on the facet
OffsetThroughBoundaryWitness ==
    /\ OffsetComputed
    /\ ~PARAMS.RoundFacets
    /\ vvertex = Request3(Scale, 0, 0)
    /\ last.ret = ORACLE_OK
    /\ simplex.obj_val = 40
    /\ vfacet[vobjs] = 50
    /\ InteriorSide > 0

\* a finite request was answered with a facet whose offset is not 0
OffsetFiniteWitness ==
    /\ OffsetComputed
    /\ ~PARAMS.RoundFacets
    /\ vvertex[vobjs] # 0
    /\ last.ret = ORACLE_OK
    /\ vfacet[vobjs] # 0
    /\ BoundarySum # 0

====
